---- MODULE Spec2Model ----
(***************************************************************************)
(* LakehouseSyncManager (src/LakehouseSyncEndpoint.py): one run of         *)
(* sync_lakehouse against a nondeterministic Fabric REST service.          *)
(*                                                                         *)
(* Python values are modelled as follows.  A dict is a TLA+ record whose   *)
(* DOMAIN is the set of keys present; a list is a sequence; None is the    *)
(* record None; a str that the program takes apart (a timestamp) is        *)
(* PyStr(s) with s a sequence of one-character strings; every other str is *)
(* a TLA+ string.  An exception is [cls, msg].                             *)
(***************************************************************************)
EXTENDS Integers, Sequences, FiniteSets, TLC

VARIABLES
    pc,               \* position of the run inside sync_lakehouse
    sql_endpoint_id,  \* local of sync_lakehouse (line 96)
    batch_id,         \* local of sync_lakehouse (line 99)
    progress_state,   \* local of sync_lakehouse (line 99): the Initiator's state
    poll_state,       \* local progress_state of poll_sync_status (lines 79, 86)
    status_data,      \* last status body read (line 85), returned at line 88
    table_details,    \* list built at lines 107-115
    printed,          \* lines written by print (lines 116-118)
    log,              \* records written by logging.error / logging.warning
    raised,           \* the exception raised inside the try block, or NoException
    raised_at,        \* the stage it was raised in
    escaped,          \* TRUE iff an exception left sync_lakehouse
    nMetadata,        \* GET /v1/workspaces/../lakehouses/.. requests issued
    nSubmit,          \* POST /v1.0/myorg/lhdatamarts/{id} requests issued
    nSleep,           \* time.sleep(1) calls made
    nStatus,          \* GET .../batches/{batch} requests issued
    status_targets,   \* the (endpoint, batch) pairs the status reads were sent to
    last_read,        \* outcome of the latest status read
    delay,            \* argument of the latest time.sleep call (line 82), 0 before any
    utc_input,        \* argument of a direct call of convert_to_spain (line 25)
    localized         \* what that call returned or raised (lines 33, 43)

vars == << pc, sql_endpoint_id, batch_id, progress_state, poll_state, status_data,
           table_details, printed, log, raised, raised_at, escaped,
           nMetadata, nSubmit, nSleep, nStatus, status_targets, last_read,
           delay, utc_input, localized >>

(***************************************************************************)
(* Bounds of the model.                                                    *)
(***************************************************************************)
\* Request counters count exactly up to MaxCount and then stay there, so that
\* a service answering inProgress for ever yields a finite state space.
MaxCount == 3
\* Longest tablesSyncStatus list the service returns.
MaxTables == 2
\* Last year of the timestamps handed to convert_to_spain.
MaxYear == 2024

Bump(n) == IF n < MaxCount THEN n + 1 ELSE n

(***************************************************************************)
(* Python values.                                                          *)
(***************************************************************************)
None == [py_none |-> TRUE]
PyStr(s) == [str |-> s]
Unset == "unset"
\* convert_to_spain has not been called directly, or has not returned yet.
NotCalled == [not_called |-> TRUE]

Return(v) == [raises |-> FALSE, value |-> v]
Raise(cls, msg) == [raises |-> TRUE, exc |-> [cls |-> cls, msg |-> msg]]
NoException == [cls |-> "none", msg |-> ""]

\* The exception classes that occur, each with its base class.
BaseClass(cls) ==
    CASE cls = "FabricHTTPException"        -> "FabricException"
      [] cls = "WorkspaceNotFoundException" -> "FabricException"
      [] cls = "FabricException"            -> "Exception"
      [] cls = "HTTPError"                  -> "OSError"
      [] cls = "ConnectionError"            -> "OSError"
      [] cls = "OSError"                    -> "Exception"
      [] cls = "JSONDecodeError"            -> "ValueError"
      [] cls = "KeyError"                   -> "LookupError"
      [] cls = "IndexError"                 -> "LookupError"
      [] cls = "LookupError"                -> "Exception"
      [] cls = "TypeError"                  -> "Exception"
      [] cls = "ValueError"                 -> "Exception"
      [] cls = "AttributeError"             -> "Exception"
      [] cls = "Exception"                  -> "BaseException"
      [] OTHER                              -> "object"

RECURSIVE IsSubclass(_, _)
IsSubclass(cls, base) ==
    IF cls = base THEN TRUE
    ELSE IF cls = "object" THEN FALSE
    ELSE \E parent \in { BaseClass(cls) } : IsSubclass(parent, base)

\* The failure kinds of the error taxonomy, by exception class.
FaultKinds == { "NotFound", "TransportError", "SchemaError", "FormatError", "Unclassified" }

KindOf(cls) ==
    CASE cls = "WorkspaceNotFoundException"               -> "NotFound"
      [] cls \in { "FabricHTTPException", "HTTPError" }   -> "TransportError"
      [] cls \in { "KeyError", "IndexError", "TypeError" } -> "SchemaError"
      [] cls = "ValueError"                               -> "FormatError"
      [] OTHER                                            -> "Unclassified"

(***************************************************************************)
(* The except clauses of sync_lakehouse (lines 125-130).                   *)
(***************************************************************************)
NoPayload == [no_payload |-> TRUE]

LogRecord(level, label, text, payload) ==
    [level |-> level, label |-> label, text |-> text, payload |-> payload]

\* Only the two Fabric clauses: the catch-all of lines 129-130 is missing.
ExceptClause_NoCatchAll(cls) ==
    IF IsSubclass(cls, "FabricHTTPException") THEN "Fabric HTTP Exception"
    ELSE IF IsSubclass(cls, "WorkspaceNotFoundException") THEN "Workspace not found"
    ELSE "uncaught"

\* The catch-all clause placed first.
ExceptClause_CatchAllFirst(cls) ==
    IF IsSubclass(cls, "Exception") THEN "An unexpected error occurred"
    ELSE IF IsSubclass(cls, "FabricHTTPException") THEN "Fabric HTTP Exception"
    ELSE IF IsSubclass(cls, "WorkspaceNotFoundException") THEN "Workspace not found"
    ELSE "uncaught"

\* The two Fabric clauses with each other's label.
ExceptClause_SwappedLabels(cls) ==
    IF IsSubclass(cls, "FabricHTTPException") THEN "Workspace not found"
    ELSE IF IsSubclass(cls, "WorkspaceNotFoundException") THEN "Fabric HTTP Exception"
    ELSE IF IsSubclass(cls, "Exception") THEN "An unexpected error occurred"
    ELSE "uncaught"

\* The label of the first except clause that matches, "uncaught" if none does.
ExceptClause(cls) ==
    IF IsSubclass(cls, "FabricHTTPException") THEN "Fabric HTTP Exception"
    ELSE IF IsSubclass(cls, "WorkspaceNotFoundException") THEN "Workspace not found"
    ELSE IF IsSubclass(cls, "Exception") THEN "An unexpected error occurred"
    ELSE "uncaught"

\* The stage after `stage` in the body of the try block.
NextStage(stage) ==
    CASE stage = "Resolving"  -> "Initiating"
      [] stage = "Initiating" -> "Sleeping"
      [] stage = "Polling"    -> "Reporting"
      [] OTHER                -> "Done"

\* Each stage logs its own exception and the run goes on with the next stage.
Except_Continue(stage, exc) ==
    /\ raised' = exc
    /\ raised_at' = stage
    /\ escaped' = escaped
    /\ log' = Append(log, LogRecord("ERROR", ExceptClause(exc.cls), exc.msg, NoPayload))
    /\ pc' = NextStage(stage)

\* The clause logs and raises the exception again.
Except_Reraise(stage, exc) ==
    /\ raised' = exc
    /\ raised_at' = stage
    /\ escaped' = TRUE
    /\ log' = Append(log, LogRecord("ERROR", ExceptClause(exc.cls), exc.msg, NoPayload))
    /\ pc' = "Failed"

\* A failed status read is logged and the loop tries again.
Except_Retry(stage, exc) ==
    /\ raised' = exc
    /\ raised_at' = stage
    /\ escaped' = escaped
    /\ log' = Append(log, LogRecord("ERROR", ExceptClause(exc.cls), exc.msg, NoPayload))
    /\ pc' = IF stage = "Polling" THEN "Sleeping" ELSE "Failed"

\* An exception raised inside the try block at `stage`: the matching clause
\* logs one error and the function returns; with no matching clause it leaves
\* the function.
Except(stage, exc) ==
    /\ raised' = exc
    /\ raised_at' = stage
    /\ IF ExceptClause(exc.cls) = "uncaught"
       THEN /\ escaped' = TRUE
            /\ log' = log
       ELSE /\ escaped' = escaped
            /\ log' = Append(log, LogRecord("ERROR", ExceptClause(exc.cls), exc.msg, NoPayload))
    /\ pc' = "Failed"

(***************************************************************************)
(* The REST client (self.client, a FabricRestClient).  A call either       *)
(* raises or returns a response; a response has a status and a body that   *)
(* is JSON or not.                                                         *)
(***************************************************************************)
ClientRaises(cls) ==
    [raises |-> cls, status_ok |-> FALSE, is_json |-> FALSE, body |-> NoPayload]
Response(ok, body) ==
    [raises |-> "none", status_ok |-> ok, is_json |-> TRUE, body |-> body]
NotJson ==
    [raises |-> "none", status_ok |-> TRUE, is_json |-> FALSE, body |-> NoPayload]
\* No status read has been made yet.
NoRead == ClientRaises("no read yet")

\* self.client.get / self.client.post, response.raise_for_status(), response.json()
\* (lines 51-53, 65-67, 83-85): the body, or the exception raised on the way.
ResponseJson(reply) ==
    IF reply.raises # "none" THEN Raise(reply.raises, "request failed")
    ELSE IF ~reply.status_ok THEN Raise("HTTPError", "error status")
    ELSE IF ~reply.is_json THEN Raise("JSONDecodeError", "not JSON")
    ELSE Return(reply.body)

EndpointIds == { "ep-1", "ep-2" }
BatchIds == { "b1", "b2" }

\* What a call of the client raises by itself: the two sempy exceptions the
\* except clauses name, and a failure below HTTP.
ClientExceptions == { "FabricHTTPException", "WorkspaceNotFoundException", "ConnectionError" }

FaultReplies ==
    { ClientRaises(cls) : cls \in ClientExceptions } \cup { Response(FALSE, NoPayload), NotJson }

MetadataBodies ==
    { [properties |-> [sqlEndpointProperties |-> [id |-> e]]] : e \in EndpointIds }
      \cup { [properties |-> [sqlEndpointProperties |-> None]],
             [properties |-> [sqlEndpointProperties |-> [provisioningStatus |-> "Failed"]]],
             [properties |-> [oneLakeTablesPath |-> "path"]],
             [id |-> "lakehouse"] }

MetadataReplies == FaultReplies \cup { Response(TRUE, b) : b \in MetadataBodies }

\* fetch_sql_endpoint_id (lines 45-54) on the service's reply.
fetch_sql_endpoint_id(reply) ==
    LET r == ResponseJson(reply) IN
    IF r.raises THEN r
    ELSE LET lakehouse_info == r.value IN
         IF "properties" \notin DOMAIN lakehouse_info THEN Raise("KeyError", "properties")
         ELSE IF "sqlEndpointProperties" \notin DOMAIN lakehouse_info.properties
              THEN Raise("KeyError", "sqlEndpointProperties")
         ELSE IF lakehouse_info.properties.sqlEndpointProperties = None
              THEN Raise("TypeError", "NoneType is not subscriptable")
         ELSE IF "id" \notin DOMAIN lakehouse_info.properties.sqlEndpointProperties
              THEN Raise("KeyError", "id")
         ELSE Return(lakehouse_info.properties.sqlEndpointProperties.id)

(***************************************************************************)
(* convert_to_spain (lines 24-43).  A str is a sequence of characters.     *)
(***************************************************************************)
DigitChars == << "0", "1", "2", "3", "4", "5", "6", "7", "8", "9" >>
IsDigit(c) == \E i \in 1..10 : DigitChars[i] = c
DigitVal(c) == (CHOOSE i \in 1..10 : DigitChars[i] = c) - 1

\* utc_time_str.split('.')[0]: what precedes the first '.', all of it if none.
SplitDotFirst(s) ==
    LET dots == { i \in 1..Len(s) : s[i] = "." } IN
    IF dots = { } THEN s
    ELSE SubSeq(s, 1, (CHOOSE i \in dots : \A j \in dots : i <= j) - 1)

UtcSuffix == << "+", "0", "0", ":", "0", "0" >>

IsLeap(y) == (y % 4 = 0 /\ y % 100 # 0) \/ y % 400 = 0
DaysInMonth(y, m) ==
    IF m = 2 THEN (IF IsLeap(y) THEN 29 ELSE 28)
    ELSE IF m \in { 4, 6, 9, 11 } THEN 30 ELSE 31

Num2(s, i) == 10 * DigitVal(s[i]) + DigitVal(s[i + 1])
Num4(s, i) == 100 * Num2(s, i) + Num2(s, i + 2)

\* datetime.fromisoformat on YYYY-MM-DD?HH:MM:SS+00:00, the form the program
\* builds from a full timestamp: the aware datetime, or ValueError.  (The shorter
\* ISO forms, which Python versions parse differently, are not among the inputs.)
fromisoformat(s) ==
    IF /\ Len(s) = 25
       /\ \A i \in { 1, 2, 3, 4, 6, 7, 9, 10, 12, 13, 15, 16, 18, 19 } : IsDigit(s[i])
       /\ s[5] = "-" /\ s[8] = "-" /\ s[14] = ":" /\ s[17] = ":"
       /\ SubSeq(s, 20, 25) = UtcSuffix
       /\ Num4(s, 1) >= 1
       /\ Num2(s, 6) \in 1..12
       /\ Num2(s, 9) \in 1..DaysInMonth(Num4(s, 1), Num2(s, 6))
       /\ Num2(s, 12) < 24 /\ Num2(s, 15) < 60 /\ Num2(s, 18) < 60
    THEN Return([year |-> Num4(s, 1), month |-> Num2(s, 6), day |-> Num2(s, 9),
                 hour |-> Num2(s, 12), minute |-> Num2(s, 15), second |-> Num2(s, 18)])
    ELSE Raise("ValueError", "Invalid isoformat string")

\* Days from 1970-01-01 to the civil date, and its weekday (0 = Sunday).
DaysFromCivil(y, m, d) ==
    LET yy  == IF m <= 2 THEN y - 1 ELSE y
        era == yy \div 400
        yoe == yy - era * 400
        mp  == (m + 9) % 12
        doy == (153 * mp + 2) \div 5 + d - 1
        doe == yoe * 365 + yoe \div 4 - yoe \div 100 + doy
    IN  era * 146097 + doe - 719468
Weekday(y, m, d) == (DaysFromCivil(y, m, d) + 4) % 7
LastSunday(y, m) == 31 - Weekday(y, m, 31)

\* Europe/Madrid (tz database, years from 1996): summer time from 01:00 UTC of
\* the last Sunday of March to 01:00 UTC of the last Sunday of October.
MadridSummer(t) ==
    LET key   == (t.month * 100 + t.day) * 100 + t.hour
        start == (300 + LastSunday(t.year, 3)) * 100 + 1
        end   == (1000 + LastSunday(t.year, 10)) * 100 + 1
    IN  key >= start /\ key < end
\* A fixed +01:00 in place of the zone's rules.
MadridOffset_FixedWinter(t) == 1

MadridOffset(t) == IF MadridSummer(t) THEN 2 ELSE 1
MadridName(t) == IF MadridSummer(t) THEN << "C", "E", "S", "T" >> ELSE << "C", "E", "T" >>

\* utc_time.astimezone(madrid_tz): the wall-clock time in Madrid.
astimezone(t) ==
    LET h    == t.hour + MadridOffset(t)
        over == h >= 24
        d    == IF over THEN t.day + 1 ELSE t.day
        dOver == d > DaysInMonth(t.year, t.month)
        m    == IF dOver THEN t.month + 1 ELSE t.month
        mOver == m > 12
    IN  [year |-> IF mOver THEN t.year + 1 ELSE t.year,
         month |-> IF mOver THEN 1 ELSE m,
         day |-> IF dOver THEN 1 ELSE d,
         hour |-> IF over THEN h - 24 ELSE h,
         minute |-> t.minute, second |-> t.second,
         tzname |-> MadridName(t)]

Pad2(n) == << DigitChars[(n \div 10) + 1], DigitChars[(n % 10) + 1] >>
Pad4(n) == Pad2(n \div 100) \o Pad2(n % 100)

\* strftime('%Y-%m-%d %H:%M:%S %Z')
strftime(l) ==
    Pad4(l.year) \o << "-" >> \o Pad2(l.month) \o << "-" >> \o Pad2(l.day) \o << " " >>
      \o Pad2(l.hour) \o << ":" >> \o Pad2(l.minute) \o << ":" >> \o Pad2(l.second)
      \o << " " >> \o l.tzname

NA == << "N", "/", "A" >>

\* The one element of a singleton set.  { F(x) : x \in { e } } evaluates e once
\* and hands its value to F.
Only(S) == CHOOSE x \in S : TRUE

\* Lines 35-43: the conversion of a timestamp string.
Localize(chars) ==
    Only({ IF utc_time.raises THEN utc_time
           ELSE Only({ Return(PyStr(strftime(local))) :
                         local \in { astimezone(utc_time.value) } }) :
           utc_time \in { fromisoformat(truncated) :
                            truncated \in { SplitDotFirst(chars) \o UtcSuffix } } })

\* convert_to_spain with the None test of line 32 left out.
convert_to_spain_NoNoneTest(utc_time_str) ==
    IF utc_time_str = None THEN Raise("AttributeError", "NoneType has no attribute split")
    ELSE Localize(utc_time_str.str)

\* convert_to_spain(utc_time_str): utc_time_str is None or PyStr(s).
convert_to_spain(utc_time_str) ==
    IF utc_time_str = None THEN Return(PyStr(NA))
    ELSE Localize(utc_time_str.str)

(***************************************************************************)
(* The run.                                                                *)
(***************************************************************************)
Init ==
    /\ pc = "Resolving"
    /\ sql_endpoint_id = Unset
    /\ batch_id = Unset
    /\ progress_state = Unset
    /\ poll_state = Unset
    /\ status_data = NoPayload
    /\ table_details = << >>
    /\ printed = << >>
    /\ log = << >>
    /\ raised = NoException
    /\ raised_at = "none"
    /\ escaped = FALSE
    /\ nMetadata = 0
    /\ nSubmit = 0
    /\ nSleep = 0
    /\ nStatus = 0
    /\ status_targets = {}
    /\ last_read = NoRead
    /\ delay = 0
    /\ utc_input = NotCalled
    /\ localized = NotCalled

\* Line 96: sql_endpoint_id = self.fetch_sql_endpoint_id()
Resolve ==
    /\ pc = "Resolving"
    /\ nMetadata' = Bump(nMetadata)
    /\ \E reply \in MetadataReplies :
         LET r == fetch_sql_endpoint_id(reply) IN
         IF r.raises
         THEN /\ Except("Resolving", r.exc)
              /\ UNCHANGED sql_endpoint_id
         ELSE /\ sql_endpoint_id' = r.value
              /\ pc' = "Initiating"
              /\ UNCHANGED << log, raised, raised_at, escaped >>
    /\ UNCHANGED << batch_id, progress_state, poll_state, status_data, table_details,
                    printed, nSubmit, nSleep, nStatus, status_targets, last_read,
                    delay, utc_input, localized >>

ProgressStates == { "inProgress", "success", "failure", "cancelled" }

SubmitBodies ==
    { [batchId |-> b, progressState |-> p] : b \in BatchIds, p \in ProgressStates }
      \cup { [batchId |-> "b1"], [progressState |-> "inProgress"] }

SubmitReplies == FaultReplies \cup { Response(TRUE, b) : b \in SubmitBodies }

\* initiate_sync (lines 56-68) on the service's reply: the pair returned.
initiate_sync(reply) ==
    LET r == ResponseJson(reply) IN
    IF r.raises THEN r
    ELSE LET data == r.value IN
         IF "batchId" \notin DOMAIN data THEN Raise("KeyError", "batchId")
         ELSE IF "progressState" \notin DOMAIN data THEN Raise("KeyError", "progressState")
         ELSE Return([batch_id |-> data.batchId, progress_state |-> data.progressState])

\* The loop starts from the state the Initiator reported.
InitialPollState_FromInitiator(initiator_state) == initiator_state

\* Line 79: the state poll_sync_status starts its loop with.
InitialPollState(initiator_state) == "inProgress"

\* The loop ends only on success.
WhileCondition_UntilSuccess(state) == state # "success"

\* The loop ends only on the two states the report knows.
WhileCondition_UntilKnown(state) == state \notin { "success", "failure" }

\* Line 81: while progress_state == 'inProgress'
WhileCondition(state) == state = "inProgress"

\* A loop that submits the refresh again before each further poll.
AfterLoopTest_Resubmit(state) == IF WhileCondition(state) THEN "Initiating" ELSE "Reporting"

\* A loop whose body reads the status without sleeping first.
AfterLoopTest_NoSleep(state) == IF WhileCondition(state) THEN "Reading" ELSE "Reporting"

\* Where the run goes when the loop condition is evaluated: into the loop body
\* (line 82) or out of poll_sync_status and on to line 105.
AfterLoopTest(state) == IF WhileCondition(state) THEN "Sleeping" ELSE "Reporting"

\* Lines 99-102 up to the first loop test: batch_id, progress_state =
\* self.initiate_sync(sql_endpoint_id), then the entry of poll_sync_status.
Initiate ==
    /\ pc = "Initiating"
    /\ nSubmit' = Bump(nSubmit)
    /\ \E reply \in SubmitReplies :
         LET r == initiate_sync(reply) IN
         IF r.raises
         THEN /\ Except("Initiating", r.exc)
              /\ UNCHANGED << batch_id, progress_state, poll_state >>
         ELSE /\ batch_id' = r.value.batch_id
              /\ progress_state' = r.value.progress_state
              /\ poll_state' = InitialPollState(r.value.progress_state)
              /\ pc' = AfterLoopTest(poll_state')
              /\ UNCHANGED << log, raised, raised_at, escaped >>
    /\ UNCHANGED << sql_endpoint_id, status_data, table_details, printed,
                    nMetadata, nSleep, nStatus, status_targets, last_read,
                    delay, utc_input, localized >>

\* Line 82: the argument of time.sleep, the same in every iteration.
SleepSeconds == 1

\* Line 82: time.sleep(1)
Sleep ==
    /\ pc = "Sleeping"
    /\ delay' = SleepSeconds
    /\ nSleep' = Bump(nSleep)
    /\ pc' = "Reading"
    /\ UNCHANGED << sql_endpoint_id, batch_id, progress_state, poll_state, status_data,
                    table_details, printed, log, raised, raised_at, escaped,
                    nMetadata, nSubmit, nStatus, status_targets, last_read,
                    utc_input, localized >>

(***************************************************************************)
(* The status documents of the service.                                    *)
(***************************************************************************)
Chars_2024_01_01 ==
    << "2", "0", "2", "4", "-", "0", "1", "-", "0", "1", "T",
       "1", "0", ":", "0", "0", ":", "0", "0", ".", "1", "2", "3" >>
Chars_2024_07_15 ==
    << "2", "0", "2", "4", "-", "0", "7", "-", "1", "5", "T",
       "2", "3", ":", "3", "0", ":", "0", "0" >>
Chars_Malformed ==
    << "2", "0", "2", "4", "-", "1", "3", "-", "0", "1", "T",
       "1", "0", ":", "0", "0", ":", "0", "0" >>

OrdersEntry ==
    [tableName |-> "Orders", lastSuccessfulUpdate |-> PyStr(Chars_2024_01_01),
     tableSyncState |-> "Completed", sqlSyncState |-> "Completed"]

TableEntries ==
    { OrdersEntry,
      [tableName |-> "Customers", lastSuccessfulUpdate |-> None,
       tableSyncState |-> "Completed", sqlSyncState |-> "Completed"],
      [tableName |-> "Items",
       tableSyncState |-> "NotRun", sqlSyncState |-> "NotRun"],
      [tableName |-> "Stock", lastSuccessfulUpdate |-> PyStr(Chars_Malformed),
       tableSyncState |-> "Completed", sqlSyncState |-> "Completed"],
      [tableName |-> "Sales", lastSuccessfulUpdate |-> PyStr(Chars_2024_07_15),
       sqlSyncState |-> "Completed"] }

TableLists == UNION { [1..n -> TableEntries] : n \in 0..MaxTables }

OperationInformation(tables) == << [progressDetail |-> [tablesSyncStatus |-> tables]] >>

StatusBodies ==
    { [progressState |-> "success", operationInformation |-> OperationInformation(ts)] :
        ts \in TableLists }
      \cup { [progressState |-> p, operationInformation |-> OperationInformation(ts)] :
               p \in ProgressStates \ { "success" }, ts \in [1..1 -> { OrdersEntry }] }
      \cup { [progressState |-> "success"],
             [progressState |-> "success", operationInformation |-> << [progressDetail |-> None] >>],
             [progressState |-> "success",
              operationInformation |-> << [progressDetail |-> [tableCount |-> "0"]] >>],
             [progressState |-> "success", operationInformation |-> << [batchType |-> "refresh"] >>],
             [operationInformation |-> << >>] }


\* A loop that gives up after its third status read and returns what it has.
StatusReadAnswered_MaxPolls(reply) ==
    /\ last_read' = reply
    /\ LET r == ResponseJson(reply) IN
       IF r.raises
       THEN /\ Except("Polling", r.exc)
            /\ UNCHANGED << status_data, poll_state >>
       ELSE IF "progressState" \notin DOMAIN r.value
       THEN /\ Except("Polling", Raise("KeyError", "progressState").exc)
            /\ UNCHANGED << status_data, poll_state >>
       ELSE /\ status_data' = r.value
            /\ poll_state' = r.value.progressState
            /\ pc' = IF nStatus >= 2 THEN "Reporting" ELSE AfterLoopTest(poll_state')
            /\ UNCHANGED << log, raised, raised_at, escaped >>

\* Lines 83-86: one status read of poll_sync_status, then the loop test of
\* line 81 and, when the loop ends, the return of line 88.
StatusReadAnswered(reply) ==
    /\ last_read' = reply
    /\ LET r == ResponseJson(reply) IN
       IF r.raises
       THEN /\ Except("Polling", r.exc)
            /\ UNCHANGED << status_data, poll_state >>
       ELSE IF "progressState" \notin DOMAIN r.value
       THEN /\ Except("Polling", Raise("KeyError", "progressState").exc)
            /\ UNCHANGED << status_data, poll_state >>
       ELSE /\ status_data' = r.value
            /\ poll_state' = r.value.progressState
            /\ pc' = AfterLoopTest(poll_state')
            /\ UNCHANGED << log, raised, raised_at, escaped >>

StatusRead ==
    /\ pc = "Reading"
    /\ nStatus' = Bump(nStatus)
    /\ status_targets' = status_targets \cup { << sql_endpoint_id, batch_id >> }
    /\ \/ \E reply \in FaultReplies : StatusReadAnswered(reply)
       \/ \E body \in StatusBodies : StatusReadAnswered(Response(TRUE, body))
    /\ UNCHANGED << sql_endpoint_id, batch_id, progress_state, table_details, printed,
                    nMetadata, nSubmit, nSleep, delay, utc_input, localized >>

(***************************************************************************)
(* The report (lines 105-123).                                             *)
(***************************************************************************)
\* table.get('lastSuccessfulUpdate', 'N/A')
GetLastSuccessfulUpdate(table) ==
    IF "lastSuccessfulUpdate" \in DOMAIN table THEN table.lastSuccessfulUpdate ELSE PyStr(NA)

\* Lines 108-113: the dict built for one table, its values evaluated in order.
TableDetail(table) ==
    IF "tableName" \notin DOMAIN table THEN Raise("KeyError", "tableName")
    ELSE Only({ IF converted.raises THEN converted
                ELSE IF "tableSyncState" \notin DOMAIN table
                     THEN Raise("KeyError", "tableSyncState")
                ELSE IF "sqlSyncState" \notin DOMAIN table
                     THEN Raise("KeyError", "sqlSyncState")
                ELSE Return([tableName |-> table.tableName,
                             lastSuccessfulUpdate |-> converted.value,
                             tableSyncState |-> table.tableSyncState,
                             sqlSyncState |-> table.sqlSyncState]) :
                converted \in { convert_to_spain(GetLastSuccessfulUpdate(table)) } })

\* A comprehension that leaves out the entries it cannot build.
TableDetails_SkipFailing(tables) ==
    Only({ LET good == SelectSeq(built, LAMBDA b : ~b.raises) IN
           Return([i \in 1..Len(good) |-> good[i].value]) :
           built \in { [i \in 1..Len(tables) |-> TableDetail(tables[i])] } })

\* Lines 107-115: the list comprehension, stopped by the first exception.
TableDetails(tables) ==
    Only({ LET failing == { i \in 1..Len(tables) : built[i].raises } IN
           IF failing # { }
           THEN built[CHOOSE i \in failing : \A j \in failing : i <= j]
           ELSE Return([i \in 1..Len(tables) |-> built[i].value]) :
           built \in { [i \in 1..Len(tables) |-> TableDetail(tables[i])] } })

\* Line 106: status_data['operationInformation'][0]['progressDetail']['tablesSyncStatus']
TablesSyncStatus(data) ==
    IF "operationInformation" \notin DOMAIN data THEN Raise("KeyError", "operationInformation")
    ELSE IF Len(data.operationInformation) = 0 THEN Raise("IndexError", "list index out of range")
    ELSE LET op == data.operationInformation[1] IN
         IF "progressDetail" \notin DOMAIN op THEN Raise("KeyError", "progressDetail")
         ELSE IF op.progressDetail = None
              THEN Raise("TypeError", "NoneType is not subscriptable")
         ELSE IF "tablesSyncStatus" \notin DOMAIN op.progressDetail
              THEN Raise("KeyError", "tablesSyncStatus")
         ELSE Return(op.progressDetail.tablesSyncStatus)

\* Lines 106-115: the table list taken out of the payload, then the details.
ExtractTableDetails(data) ==
    Only({ IF tables.raises THEN tables ELSE TableDetails(tables.value) :
           tables \in { TablesSyncStatus(data) } })

\* Lines 117-118: the line printed for one table.
FormatLine(detail) ==
    [Table |-> detail.tableName, LastUpdate |-> detail.lastSuccessfulUpdate.str,
     TableSyncState |-> detail.tableSyncState, SQLSyncState |-> detail.sqlSyncState]

\* Every state but failure is taken for success.
ReportBranch_NotFailure(state) ==
    IF state # "failure" THEN "tables" ELSE "error"

\* Lines 105, 120, 122: the branch taken on the terminal state.
ReportBranch(state) ==
    IF state = "success" THEN "tables"
    ELSE IF state = "failure" THEN "error"
    ELSE "warning"

\* Lines 105-115 and 120-123: the branch on the terminal state; on success the
\* table details are built, otherwise one record is logged.
Classify ==
    /\ pc = "Reporting"
    /\ IF "progressState" \notin DOMAIN status_data
       THEN /\ Except("Reporting", Raise("KeyError", "progressState").exc)
            /\ UNCHANGED table_details
       ELSE IF ReportBranch(status_data.progressState) = "tables"
       THEN \E details \in { ExtractTableDetails(status_data) } :
              IF details.raises
              THEN /\ Except("Reporting", details.exc)
                   /\ UNCHANGED table_details
              ELSE /\ table_details' = details.value
                   /\ pc' = IF details.value = << >> THEN "Done" ELSE "Printing"
                   /\ UNCHANGED << log, raised, raised_at, escaped >>
       ELSE IF ReportBranch(status_data.progressState) = "error"
       THEN /\ log' = Append(log, LogRecord("ERROR", "Sync failed", "", status_data))
            /\ pc' = "Done"
            /\ UNCHANGED << table_details, raised, raised_at, escaped >>
       ELSE /\ log' = Append(log, LogRecord("WARNING", "Unexpected state",
                                            status_data.progressState, NoPayload))
            /\ pc' = "Done"
            /\ UNCHANGED << table_details, raised, raised_at, escaped >>
    /\ UNCHANGED << sql_endpoint_id, batch_id, progress_state, poll_state, status_data,
                    printed, nMetadata, nSubmit, nSleep, nStatus, status_targets, last_read,
                    delay, utc_input, localized >>

\* Lines 116-118: one iteration of the print loop.
PrintLine ==
    /\ pc = "Printing"
    /\ printed' = Append(printed, FormatLine(table_details[Len(printed) + 1]))
    /\ pc' = IF Len(printed') = Len(table_details) THEN "Done" ELSE "Printing"
    /\ UNCHANGED << sql_endpoint_id, batch_id, progress_state, poll_state, status_data,
                    table_details, log, raised, raised_at, escaped,
                    nMetadata, nSubmit, nSleep, nStatus, status_targets, last_read,
                    delay, utc_input, localized >>

Next ==
    \/ Resolve
    \/ Initiate
    \/ Sleep
    \/ StatusRead
    \/ Classify
    \/ PrintLine

Spec == Init /\ [][Next]_vars

\* The interpreter runs the function to its end: a step that can be taken is
\* taken (time.sleep returns, a request returns or raises).
LiveSpec == Spec /\ WF_vars(Next)

(***************************************************************************)
(* convert_to_spain called on its own (a staticmethod, line 24).           *)
(***************************************************************************)
Years == 2023..MaxYear
\* The months of the two transitions, of the year's ends, of the leap day and
\* one of the summer; the hours around 01:00 UTC and those that pass midnight
\* in Madrid.
InputMonths == { 1, 2, 3, 7, 10, 12 }
InputHours == { 0, 1, 2, 10, 22, 23 }
InputClocks == { << 0, 0 >>, << 59, 59 >> }
Fractions == { << >>, << ".", "1", "2", "3" >> }

\* YYYY-MM-DDTHH:MM:SS, the timestamps of the service without their fraction.
isoformat(y, m, d, h, mi, sec) ==
    Pad4(y) \o << "-" >> \o Pad2(m) \o << "-" >> \o Pad2(d) \o << "T" >>
      \o Pad2(h) \o << ":" >> \o Pad2(mi) \o << ":" >> \o Pad2(sec)

ValidInputs ==
    UNION { { PyStr(isoformat(y, m, d, h, c[1], c[2]) \o f) :
                d \in 1..DaysInMonth(y, m), h \in InputHours, c \in InputClocks,
                f \in Fractions } :
            y \in Years, m \in InputMonths }
InvalidInputs == { None, PyStr(NA), PyStr(Chars_Malformed) }
LocalizerInputs == ValidInputs \cup InvalidInputs

LocalizerInit ==
    /\ pc = "Converting"
    /\ utc_input \in LocalizerInputs
    /\ localized = NotCalled
    /\ sql_endpoint_id = Unset
    /\ batch_id = Unset
    /\ progress_state = Unset
    /\ poll_state = Unset
    /\ status_data = NoPayload
    /\ table_details = << >>
    /\ printed = << >>
    /\ log = << >>
    /\ raised = NoException
    /\ raised_at = "none"
    /\ escaped = FALSE
    /\ nMetadata = 0
    /\ nSubmit = 0
    /\ nSleep = 0
    /\ nStatus = 0
    /\ status_targets = {}
    /\ last_read = NoRead
    /\ delay = 0

\* LakehouseSyncManager.convert_to_spain(utc_input)
ConvertToSpain ==
    /\ pc = "Converting"
    /\ localized' = convert_to_spain(utc_input)
    /\ pc' = "Converted"
    /\ UNCHANGED << sql_endpoint_id, batch_id, progress_state, poll_state, status_data,
                    table_details, printed, log, raised, raised_at, escaped,
                    nMetadata, nSubmit, nSleep, nStatus, status_targets, last_read,
                    delay, utc_input >>

LocalizerNext == ConvertToSpain

LocalizerSpec == LocalizerInit /\ [][LocalizerNext]_vars

(***************************************************************************)
(* Properties.                                                             *)
(***************************************************************************)
Terminated == pc \in { "Done", "Failed" }
Faulted == raised # NoException
HasState(data) == "progressState" \in DOMAIN data
\* poll_sync_status has returned its payload to sync_lakehouse.
PollReturned == pc \in { "Reporting", "Printing", "Done" } \/ (pc = "Failed" /\ raised_at = "Reporting")
\* A status read that delivered a document with a progressState.
ReadState(reply) ==
    IF reply.raises = "none" /\ reply.status_ok /\ reply.is_json /\ HasState(reply.body)
    THEN reply.body.progressState
    ELSE "no state"

\* C1: no exception leaves sync_lakehouse: whatever is raised in whichever
\* stage, the run is then in its terminal Failed state with the error logged
\* as its last record, and the function has returned normally.
C1_NoFaultEscapes ==
    /\ ~escaped
    /\ Faulted =>
         /\ pc = "Failed"
         /\ raised_at \in { "Resolving", "Initiating", "Polling", "Reporting" }
         /\ KindOf(raised.cls) \in FaultKinds
         /\ Len(log) >= 1
         /\ log[Len(log)].level = "ERROR"
         /\ log[Len(log)].text = raised.msg

\* A FormatError raised in the report stage has been caught and logged.
C1_Witness ==
    /\ pc = "Failed"
    /\ raised_at = "Reporting"
    /\ KindOf(raised.cls) = "FormatError"
    /\ ~escaped

\* C2: poll_sync_status returns exactly at the first status read whose
\* progressState is not inProgress (success, failure or any other string), never
\* on an inProgress read, and what it returns is the document of that read.
C2_PollReturnsFirstTerminal ==
    [][ pc = "Reading" =>
          /\ (pc' = "Reporting") <=> (ReadState(last_read') \notin { "no state", "inProgress" })
          /\ (pc' = "Reporting") => (status_data' = last_read'.body /\
                                     status_data'.progressState # "inProgress")
          /\ (ReadState(last_read') = "inProgress") => pc' = "Sleeping" ]_vars

\* The poller has returned an other-string state after an inProgress read.
C2_Witness ==
    /\ pc = "Reporting"
    /\ status_data.progressState = "cancelled"
    /\ nStatus >= 2

\* C3: in every run the metadata read and the submit request are each issued at
\* most once, whatever the number of polls and whatever fails, and every status
\* read goes to the endpoint id and batch id the run obtained from them.
C3_OneJobPerRun ==
    /\ nMetadata <= 1
    /\ nSubmit <= 1
    /\ nSubmit = 1 => nMetadata = 1
    /\ nStatus >= 1 => (nSubmit = 1 /\ status_targets = { << sql_endpoint_id, batch_id >> })
    /\ nStatus >= 1 => (sql_endpoint_id \in EndpointIds /\ batch_id \in BatchIds)

\* A run that failed after several polls issued one submit request.
C3_Witness ==
    /\ pc = "Failed"
    /\ raised_at = "Polling"
    /\ nStatus >= 3
    /\ nSubmit = 1

\* C4: table records exist and lines are printed only when the terminal state
\* is success; on failure or any other state the run ends with no record, no
\* line and exactly one log record: an error carrying the whole payload on
\* failure, a warning naming the state otherwise.
C4_TablesOnlyOnSuccess ==
    /\ (table_details # << >> \/ printed # << >>) =>
         (HasState(status_data) /\ status_data.progressState = "success")
    /\ (PollReturned /\ pc # "Reporting" /\ status_data.progressState = "failure") =>
         /\ pc = "Done"
         /\ table_details = << >> /\ printed = << >>
         /\ log = << LogRecord("ERROR", "Sync failed", "", status_data) >>
    /\ (PollReturned /\ pc # "Reporting"
          /\ status_data.progressState \notin { "success", "failure" }) =>
         /\ pc = "Done"
         /\ table_details = << >> /\ printed = << >>
         /\ log = << LogRecord("WARNING", "Unexpected state",
                               status_data.progressState, NoPayload) >>

\* A run ended on an unrecognised terminal state whose payload lists a table.
C4_Witness ==
    /\ pc = "Done"
    /\ status_data.progressState = "cancelled"
    /\ Len(TablesSyncStatus(status_data).value) = 1
    /\ Len(log) = 1

\* The table list of a success payload whose nested structure is complete.
ReportedTables == TablesSyncStatus(status_data).value
SuccessReported ==
    /\ PollReturned /\ pc # "Reporting"
    /\ HasState(status_data) /\ status_data.progressState = "success"
    /\ ~TablesSyncStatus(status_data).raises
\* A present string that datetime.fromisoformat accepts once truncated.
IsValidTimestamp(v) == v # None /\ ~fromisoformat(SplitDotFirst(v.str) \o UtcSuffix).raises
\* An entry with its three mandatory fields whose lastSuccessfulUpdate is a
\* valid timestamp, null, or not there at all.
WellFormedEntry(t) ==
    /\ { "tableName", "tableSyncState", "sqlSyncState" } \subseteq DOMAIN t
    /\ "lastSuccessfulUpdate" \in DOMAIN t =>
         (t.lastSuccessfulUpdate = None \/ IsValidTimestamp(t.lastSuccessfulUpdate))

\* C5: on a success payload whose entries each have lastSuccessfulUpdate present
\* or absent, the run ends with exactly one record and one printed line per
\* entry, in the order of the input list.
C5_OneLinePerEntry ==
    (SuccessReported /\ pc # "Printing"
       /\ \A i \in 1..Len(ReportedTables) : WellFormedEntry(ReportedTables[i])) =>
      /\ pc = "Done"
      /\ Len(table_details) = Len(ReportedTables)
      /\ Len(printed) = Len(ReportedTables)
      /\ \A i \in 1..Len(ReportedTables) :
           /\ table_details[i].tableName = ReportedTables[i].tableName
           /\ printed[i].Table = ReportedTables[i].tableName

\* The order in which the stages follow one another.
StageOrder ==
    { << "Resolving", "Initiating" >>, << "Initiating", "Sleeping" >>,
      << "Sleeping", "Reading" >>, << "Reading", "Sleeping" >>,
      << "Reading", "Reporting" >>, << "Reporting", "Printing" >>,
      << "Reporting", "Done" >>, << "Printing", "Printing" >>, << "Printing", "Done" >>,
      << "Resolving", "Failed" >>, << "Initiating", "Failed" >>,
      << "Reading", "Failed" >>, << "Reporting", "Failed" >> }

\* C6: the stages run in the order Resolving, Initiating, Polling, Reporting; a
\* failure goes straight to Failed, from which nothing further happens; no
\* submit request without a resolved endpoint, no sleep or status read without
\* a submitted batch, no table record or line without a terminal payload.
C6_StagesInOrder ==
    /\ [](nSubmit > 0 => (nMetadata = 1 /\ sql_endpoint_id \in EndpointIds))
    /\ [](nSleep > 0 \/ nStatus > 0 => (nSubmit = 1 /\ batch_id \in BatchIds))
    /\ [](table_details # << >> \/ printed # << >> =>
            (nStatus > 0 /\ HasState(status_data) /\ status_data.progressState # "inProgress"))
    /\ [][ (<< pc, pc' >> \in StageOrder) ]_vars
    /\ [][ ~Terminated ]_vars
    /\ [][ (raised' # raised) => (~Faulted /\ pc' = "Failed") ]_vars

\* A run that failed in the Initiator never slept nor read a status.
C6_Witness ==
    /\ pc = "Failed"
    /\ raised_at = "Initiating"
    /\ nSubmit = 1
    /\ nSleep = 0 /\ nStatus = 0
    /\ printed = << >>

\* C7: a transport error (FabricHTTPException raised by the client, HTTPError
\* raised by raise_for_status) in the Resolver, the Initiator or a status read
\* leaves exactly one log record, an error, and the function returns normally.
C7_TransportErrorLoggedOnce ==
    (Faulted /\ KindOf(raised.cls) = "TransportError"
       /\ raised_at \in { "Resolving", "Initiating", "Polling" }) =>
      /\ pc = "Failed"
      /\ ~escaped
      /\ Len(log) = 1
      /\ log[1].level = "ERROR"
      /\ log[1].text = raised.msg

\* A status read answered with an error status after an inProgress read.
C7_Witness ==
    /\ pc = "Failed"
    /\ raised_at = "Polling"
    /\ raised.cls = "HTTPError"
    /\ nStatus >= 2
    /\ Len(log) = 1

\* C8: polling is left only by a status read that observed a state other than
\* inProgress or failed; and every run reaches Done or Failed unless the service
\* answers inProgress again and again for ever.
C8_TerminatesOnTerminalRead ==
    /\ [][ (pc \in { "Sleeping", "Reading" } /\ pc' \notin { "Sleeping", "Reading" }) =>
             (pc = "Reading" /\ ReadState(last_read') # "inProgress") ]_vars
    /\ \/ <>Terminated
       \/ []<>(pc = "Sleeping" /\ ReadState(last_read) = "inProgress")

\* A run that ended after inProgress reads followed by a terminal one.
C8_Witness ==
    /\ pc = "Done"
    /\ nStatus >= 3
    /\ ReadState(last_read) = "failure"

\* C9: convert_to_spain returns "N/A" for every absent timestamp, the value
\* the report passes for an entry without lastSuccessfulUpdate included, and
\* raises only for a present string that is no valid truncated-ISO timestamp.
C9_AbsentGivesNA ==
    (PollReturned /\ HasState(status_data) /\ status_data.progressState = "success"
       /\ ~TablesSyncStatus(status_data).raises) =>
      \A i \in 1..Len(ReportedTables) :
        LET t == ReportedTables[i]
            absent == "lastSuccessfulUpdate" \notin DOMAIN t \/ t.lastSuccessfulUpdate = None
            result == convert_to_spain(GetLastSuccessfulUpdate(t))
        IN  /\ absent => result = Return(PyStr(NA))
            /\ result.raises => (~absent /\ ~IsValidTimestamp(t.lastSuccessfulUpdate))

\* The failure kind a log label names.
LabelKind(label) ==
    CASE label = "Fabric HTTP Exception"        -> "TransportError"
      [] label = "Workspace not found"          -> "NotFound"
      [] label = "An unexpected error occurred" -> "Unclassified"
      [] OTHER                                  -> "none"

\* The Resolver's response had no sqlEndpointProperties.
MissingSqlEndpointProperties ==
    /\ raised_at = "Resolving"
    /\ raised = [cls |-> "KeyError", msg |-> "sqlEndpointProperties"]

\* C10 as stated: a failed run logs a single diagnostic naming the failure kind
\* of the fault; a response without sqlEndpointProperties is logged as a
\* SchemaError and no table line is printed.
C10_DiagnosticNamesKind ==
    pc = "Failed" =>
      /\ Len(log) = 1
      /\ LabelKind(log[1].label) = KindOf(raised.cls)
      /\ MissingSqlEndpointProperties =>
           (LabelKind(log[1].label) = "SchemaError" /\ printed = << >>)

\* C10 as amended: a failed run logs a single error whose text is the message of
\* the exception; its label names the kind only for FabricHTTPException and
\* WorkspaceNotFoundException, every other exception gets the generic label; a
\* response without sqlEndpointProperties is logged under the generic label with
\* the missing key as text, and the run ends with no request submitted and no
\* table line printed.
C10_FailedRunLogsOneError ==
    pc = "Failed" =>
      /\ Len(log) = 1
      /\ log[1].level = "ERROR"
      /\ log[1].text = raised.msg
      /\ log[1].payload = NoPayload
      /\ (log[1].label = "Fabric HTTP Exception") <=> (raised.cls = "FabricHTTPException")
      /\ (log[1].label = "Workspace not found") <=> (raised.cls = "WorkspaceNotFoundException")
      /\ (log[1].label = "An unexpected error occurred") <=>
           (raised.cls \notin { "FabricHTTPException", "WorkspaceNotFoundException" })
      /\ MissingSqlEndpointProperties =>
           /\ log[1].label = "An unexpected error occurred"
           /\ log[1].text = "sqlEndpointProperties"
           /\ nSubmit = 0
           /\ table_details = << >> /\ printed = << >>

\* The run failed on a metadata response without sqlEndpointProperties.
C10_Witness ==
    /\ pc = "Failed"
    /\ MissingSqlEndpointProperties
    /\ Len(log) = 1

\* The labels of the three handlers (lines 126, 128, 130).
HandlerLabels ==
    { "Fabric HTTP Exception", "Workspace not found", "An unexpected error occurred" }
\* The records the handlers wrote.
HandlerRecords == { i \in 1..Len(log) : log[i].label \in HandlerLabels }
\* The handler a fault belongs to: the platform's transport exception, the
\* platform's not-found exception, anything else.
HandlerOf(cls) ==
    CASE cls = "FabricHTTPException"        -> "Fabric HTTP Exception"
      [] cls = "WorkspaceNotFoundException" -> "Workspace not found"
      [] OTHER                              -> "An unexpected error occurred"

ClockFields(s) ==
    [year |-> Num4(s, 1), month |-> Num2(s, 6), day |-> Num2(s, 9),
     hour |-> Num2(s, 12), minute |-> Num2(s, 15), second |-> Num2(s, 18)]
\* The UTC offset an abbreviation of Europe/Madrid stands for.
AbbreviationOffset(name) ==
    IF name = << "C", "E", "T" >> THEN 1
    ELSE IF name = << "C", "E", "S", "T" >> THEN 2
    ELSE 0
\* A wall-clock time `off` hours ahead of UTC, taken back to UTC.
ToUtc(l, off) ==
    LET h      == l.hour - off
        under  == h < 0
        d      == IF under THEN l.day - 1 ELSE l.day
        dUnder == d < 1
        m      == IF dUnder THEN l.month - 1 ELSE l.month
        mUnder == m < 1
        y      == IF mUnder THEN l.year - 1 ELSE l.year
        mm     == IF mUnder THEN 12 ELSE m
    IN  [year |-> y, month |-> mm,
         day |-> IF dUnder THEN DaysInMonth(y, mm) ELSE d,
         hour |-> IF under THEN h + 24 ELSE h,
         minute |-> l.minute, second |-> l.second]
\* The output of convert_to_spain read back: '%Y-%m-%d %H:%M:%S' and, from
\* column 21, the abbreviation, which gives the offset to undo.
ParsedBackUtc(out) == ToUtc(ClockFields(out), AbbreviationOffset(SubSeq(out, 21, Len(out))))

Text_2024_01_01_CET ==
    << "2", "0", "2", "4", "-", "0", "1", "-", "0", "1", " ",
       "1", "1", ":", "0", "0", ":", "0", "0", " ", "C", "E", "T" >>

\* C12: for every valid truncated-ISO UTC timestamp of the input set (every day
\* of the months of both Madrid transitions among them), convert_to_spain
\* returns a text which, read back with its abbreviation and taken to UTC, is
\* the input without its fraction; 2024-01-01T10:00:00.123 gives
\* 2024-01-01 11:00:00 CET.
C12_RoundTrip ==
    (pc = "Converted" /\ utc_input \notin InvalidInputs) =>
      /\ ~localized.raises
      /\ Len(localized.value.str) \in { 23, 24 }
      /\ ParsedBackUtc(localized.value.str) = ClockFields(utc_input.str)
      /\ utc_input = PyStr(Chars_2024_01_01) =>
           localized = Return(PyStr(Text_2024_01_01_CET))

\* 2024-10-27T01:00:00, the instant summer time ends, is rendered as the second
\* 02:00:00 of that night, told apart from the first by its abbreviation.
C12_Witness ==
    /\ pc = "Converted"
    /\ utc_input = PyStr(isoformat(2024, 10, 27, 1, 0, 0))
    /\ localized = Return(PyStr(strftime([year |-> 2024, month |-> 10, day |-> 27,
                                          hour |-> 2, minute |-> 0, second |-> 0,
                                          tzname |-> << "C", "E", "T" >>])))

\* The labels the report has logged (lines 121, 123).
ReportLabels == { log[i].label : i \in 1..Len(log) } \cap { "Sync failed", "Unexpected state" }

\* C13: whatever progressState the Initiator reported, a submitted run goes
\* into the loop and the Poller returns only after at least one sleep and one
\* status read; a first read that is terminal is the only one; and what the run
\* then does (table records and lines, the failure error, the unexpected-state
\* warning) follows the progressState of the last status read alone.
C13_PollsAtLeastOnce ==
    /\ [][ (pc = "Initiating" /\ pc' # "Failed") =>
             (progress_state' \in ProgressStates /\ pc' = "Sleeping"
                /\ nSleep' = 0 /\ nStatus' = 0) ]_vars
    /\ [](PollReturned => (nSleep >= 1 /\ nStatus >= 1))
    /\ [][ (pc = "Reading" /\ nStatus = 0
              /\ ReadState(last_read') \notin { "no state", "inProgress" }) =>
             (pc' = "Reporting" /\ nStatus' = 1) ]_vars
    /\ [][ PollReturned => (nStatus' = nStatus /\ nSleep' = nSleep) ]_vars
    /\ []((table_details # << >> \/ printed # << >>) => ReadState(last_read) = "success")
    /\ []((PollReturned /\ pc # "Reporting") =>
            ReportLabels = IF ReadState(last_read) = "success" THEN { }
                           ELSE IF ReadState(last_read) = "failure" THEN { "Sync failed" }
                           ELSE { "Unexpected state" })

\* The Initiator reported success, the one status read reported failure, and
\* the run logged the failure.
C13_Witness ==
    /\ pc = "Done"
    /\ progress_state = "success"
    /\ ReadState(last_read) = "failure"
    /\ nSleep = 1 /\ nStatus = 1
    /\ ReportLabels = { "Sync failed" }

\* C14: in the loop every status read comes right after exactly one sleep of
\* one second and every sleep is followed by a status read: the number of
\* sleeps is the number of status reads, plus one exactly while a read is
\* pending, and the two are equal once the Poller has returned or failed.  (The
\* counters are exact up to MaxCount; the alternation of the steps is checked
\* at every count.)
C14_SleepThenRead ==
    /\ [](nSleep = IF pc = "Reading" THEN Bump(nStatus) ELSE nStatus)
    /\ []((PollReturned \/ Terminated) => nSleep = nStatus)
    /\ [](delay = IF nSleep = 0 THEN 0 ELSE SleepSeconds)
    /\ [][ (pc' = "Reading") => (pc = "Sleeping" /\ delay' = SleepSeconds) ]_vars
    /\ [][ (pc = "Sleeping") => (pc' = "Reading" /\ nStatus' = nStatus) ]_vars
    /\ [][ (pc = "Reading") => (pc' # "Reading" /\ nSleep' = nSleep
                                 /\ nStatus' = Bump(nStatus)) ]_vars
    /\ [][ (pc \notin { "Sleeping", "Reading" }) =>
             (nSleep' = nSleep /\ nStatus' = nStatus /\ delay' = delay) ]_vars

\* The second sleep is over and the second status read is pending.
C14_Witness ==
    /\ pc = "Reading"
    /\ nSleep = 2
    /\ nStatus = 1
    /\ delay = SleepSeconds

\* C15: a status read that fails (the client raises, the status is an error,
\* the body is no JSON or has no progressState) ends the run at once: the step
\* goes to Failed with one error logged, and from then on there is no step at
\* all, so no further sleep, status read or submit request and no table record
\* or line, although the refresh was submitted.
C15_FailedReadEndsPolling ==
    /\ [][ (pc = "Reading" /\ ReadState(last_read') = "no state") =>
             (pc' = "Failed" /\ raised_at' = "Polling"
                /\ nSleep' = nSleep /\ nSubmit' = nSubmit /\ printed' = printed) ]_vars
    /\ [](raised_at = "Polling" =>
            /\ pc = "Failed"
            /\ ReadState(last_read) = "no state"
            /\ nSubmit = 1 /\ batch_id \in BatchIds
            /\ nSleep = nStatus
            /\ table_details = << >> /\ printed = << >>
            /\ Len(log) = 1)
    /\ [][ raised_at # "Polling" ]_vars

\* The second status read returned a body without progressState.
C15_Witness ==
    /\ pc = "Failed"
    /\ raised_at = "Polling"
    /\ raised = [cls |-> "KeyError", msg |-> "progressState"]
    /\ nStatus = 2
    /\ nSubmit = 1

\* C16: the loop has no maximum number of iterations, no timeout and no
\* backoff: after a status read that returned inProgress, whatever the number
\* of reads made before, the Poller is in the loop again, sleeps the same
\* SleepSeconds and reads once more; a run that has begun to poll is in Done or
\* Failed only after a read that did not return inProgress, so it never ends
\* while the service keeps answering inProgress.
C16_NoIterationLimit ==
    /\ [][ (pc = "Reading" /\ ReadState(last_read') = "inProgress") =>
             (pc' = "Sleeping" /\ ~Faulted') ]_vars
    /\ [][ (pc = "Sleeping") => (delay' = SleepSeconds /\ pc' = "Reading") ]_vars
    /\ []((pc = "Sleeping" /\ nStatus > 0) => ReadState(last_read) = "inProgress")
    /\ []((Terminated /\ nStatus > 0) => ReadState(last_read) # "inProgress")
    /\ [](PollReturned => poll_state # "inProgress")

\* MaxCount status reads in a row returned inProgress and the Poller is about
\* to sleep again.
C16_Witness ==
    /\ pc = "Sleeping"
    /\ nStatus = MaxCount
    /\ nSleep = MaxCount
    /\ ReadState(last_read) = "inProgress"
    /\ ~Faulted

\* The report of a success payload is over or has failed.
SuccessHandled ==
    /\ PollReturned /\ pc # "Reporting"
    /\ HasState(status_data) /\ status_data.progressState = "success"
\* The extraction of lines 106-115 raises on this payload.
ExtractionFails(data) ==
    \/ TablesSyncStatus(data).raises
    \/ \E i \in 1..Len(TablesSyncStatus(data).value) :
         TableDetail(TablesSyncStatus(data).value[i]).raises

\* C17: the output of the success path is all or nothing: a line is printed
\* only when a record has been built for every entry of the payload; when the
\* nested structure or any one entry cannot be extracted the run fails in the
\* report with no record, no line and exactly one error logged; and no run has
\* both a printed line and a log record.
C17_AllOrNothing ==
    /\ (pc = "Printing" \/ printed # << >>) =>
         /\ SuccessReported
         /\ ~ExtractionFails(status_data)
         /\ Len(table_details) = Len(ReportedTables)
         /\ log = << >> /\ ~Faulted
    /\ log # << >> => (printed = << >> /\ table_details = << >>)
    /\ (SuccessHandled /\ ExtractionFails(status_data)) =>
         /\ pc = "Failed" /\ raised_at = "Reporting"
         /\ table_details = << >> /\ printed = << >>
         /\ Len(log) = 1 /\ log[1].level = "ERROR"

\* The first entry of the payload could be built, the second has a malformed
\* timestamp: nothing was printed.
C17_Witness ==
    /\ pc = "Failed"
    /\ raised_at = "Reporting"
    /\ raised.cls = "ValueError"
    /\ SuccessReported
    /\ Len(ReportedTables) = 2
    /\ ReportedTables[1] = OrdersEntry
    /\ ReportedTables[2].tableName = "Stock"
    /\ printed = << >>
====
